---- MODULE Spec2Model ----
(***************************************************************************)
(* Model of backend/main.py: the project/container lifecycle handlers      *)
(* (create_project, upload_project, start_container, get_project_status,   *)
(* delete_project), the Docker daemon they drive through                   *)
(* run_docker_command, and the terminal bridge websocket_terminal with its *)
(* two pumps read_from_container and write_to_container.                   *)
(*                                                                         *)
(* All handlers are `async def` coroutines on one asyncio event loop.  A   *)
(* handler step runs without interruption from one suspending await to the *)
(* next; subprocess.run and process.stdout.read are blocking calls that    *)
(* hold the loop's only thread.  The Docker daemon, the shell process and  *)
(* the websocket client run concurrently with the loop.                    *)
(***************************************************************************)
EXTENDS Integers, Sequences, FiniteSets, TLC

(***************************************************************************)
(* Bounds                                                                  *)
(***************************************************************************)
\* docker run commands the model lets start_container issue
MaxRuns == 3
\* terminal connections opened per behaviour
MaxAttach == 2
\* text messages a client sends on one connection
MaxIn == 2
\* characters a shell process writes on one connection
MaxOut == 2

Projects == {"p1", "p2"}
\* container ids the daemon hands out: the n-th `docker run` creates id n
Cids == 1 .. MaxRuns
\* Python's None for a container id
NoCid == 0

VARIABLES
    docker_available,   \* module global, set once by check_docker_available()
    created,            \* project ids create_project has handed out
    project_dirs,       \* projects whose directory SANDBOX_BASE/<id> exists
    workspaces,         \* projects whose <id>/workspace directory exists
    active_containers,  \* module global dict: project id -> container id
    containers,         \* Docker daemon: container id -> [project, running]
    docker_runs,        \* number of `docker run` commands issued so far
    resp                \* the last HTTP response, with the request's pre-state

lifecycle_vars == <<docker_available, created, project_dirs, workspaces,
                    active_containers, containers, docker_runs, resp>>

\* One terminal connection per slot of Conns; a slot is reused by the next
\* connection once its handler has returned.  Two slots: the server accepts
\* any number of connections, and two are what it takes to have two handlers
\* of websocket_terminal on the event loop at the same time.
Conns == {"w1", "w2"}
NoConn == "none"

VARIABLES
    ws_pc,          \* websocket_terminal: "idle", "connecting", "bridging", "done"
    ws_target,      \* the container_id of the URL
    attached,       \* the handler reached asyncio.gather (it started the pumps)
    client_closed,  \* the client has closed its side of the websocket
    server_closed,  \* websocket.close() has gone through
    client_msgs,    \* every text message the client has sent, in order
    recv_count,     \* how many of them receive_text() has returned
    sent,           \* every send_text() payload that went out, in order
    proc,           \* the `docker exec -i ... /bin/bash` Popen: "none", "alive", "exited"
    terminated,     \* process.terminate() was called on it
    emitted,        \* every character the process wrote to its stdout, in order
    read_count,     \* how many of them process.stdout.read(1) has returned
    stdin,          \* every payload process.stdin.write() delivered, in order
    rd,             \* read_from_container: "none", "start", "ready", "reading", "done"
    wr,             \* write_to_container: "none", "recv", "done"
    blocked,        \* the connection whose pump holds the loop's thread in read(1)
    attaches        \* connections opened so far

bridge_vars == <<ws_pc, ws_target, attached, client_closed, server_closed,
                 client_msgs, recv_count, sent, proc, terminated, emitted,
                 read_count, stdin, rd, wr, blocked, attaches>>

vars == <<lifecycle_vars, bridge_vars>>

\* the event loop can run a handler: no pump is inside a blocking read
LoopFree == blocked = NoConn

(***************************************************************************)
(* Docker daemon, as seen through run_docker_command                       *)
(***************************************************************************)
\* what run_docker_command hands back: "none" is the None it returns on a
\* timeout or any other exception, "ok" a result with returncode 0, "fail" a
\* result with returncode != 0
Results == {"ok", "fail", "none"}

\* `if not result or result.returncode != 0`
Failed(result) == result # "ok"

\* the containers of a project, found by their --name web-ide-<project_id>
ContainersOf(project_id) ==
    {c \in DOMAIN containers : containers[c].project = project_id}

LiveContainersOf(project_id) ==
    {c \in ContainersOf(project_id) : containers[c].running}

\* a start_container that gave every container a name of its own
NameConflict_PerCallName(project_id) == FALSE

\* the daemon refuses `docker run --name N` while a container named N exists,
\* running or not
NameConflict(project_id) == ContainersOf(project_id) # {}

\* `docker run -d --name web-ide-<project_id> ...` issued by start_container.
\* made: the daemon created and started the container (it may have done so
\* although the 60 s timeout of run_docker_command killed the client first).
DockerRunOutcomes(project_id) ==
    {o \in [result : Results, made : BOOLEAN] :
        /\ o.result = "ok" => o.made
        /\ o.result = "fail" => ~o.made
        /\ NameConflict(project_id) => o.result # "ok" /\ ~o.made}

\* a function with one more (or one overwritten) key
Put(f, k, v) == [x \in DOMAIN f \cup {k} |-> IF x = k THEN v ELSE f[x]]

\* a function without a key
Del(f, k) == [x \in DOMAIN f \ {k} |-> f[x]]

ContainersAfterRun(project_id, o) ==
    IF o.made
    THEN Put(containers, docker_runs + 1, [project |-> project_id, running |-> TRUE])
    ELSE containers

\* `docker inspect --format {{.State.Running}} <container_id>`: "none" when
\* the command timed out, "fail" when no such container exists, else "ok"
\* with stdout "true" or "false"
DockerInspect(container_id, timeout) ==
    IF timeout THEN [result |-> "none", stdout |-> ""]
    ELSE IF container_id \notin DOMAIN containers
         THEN [result |-> "fail", stdout |-> ""]
         ELSE [result |-> "ok",
               stdout |-> IF containers[container_id].running THEN "true" ELSE "false"]

\* `docker stop <container_id>`: the daemon stops the container when the
\* command goes through
ContainersAfterStop(cs, container_id, result) ==
    IF result = "ok" /\ container_id \in DOMAIN cs
    THEN [cs EXCEPT ![container_id].running = FALSE]
    ELSE cs

\* `docker rm <container_id>` (no -f): the daemon removes a container only
\* when it is not running
ContainersAfterRm(cs, container_id, result) ==
    IF result = "ok" /\ container_id \in DOMAIN cs /\ ~cs[container_id].running
    THEN Del(cs, container_id)
    ELSE cs

\* a `docker exec` process ends with its container: the Popen of every bridge
\* whose container was running in `before` and is not running in `after`
ProcsAfterStop(before, after) ==
    [w \in Conns |->
        IF /\ proc[w] = "alive"
           /\ ws_target[w] \in DOMAIN before
           /\ before[ws_target[w]].running
           /\ (ws_target[w] \notin DOMAIN after \/ ~after[ws_target[w]].running)
        THEN "exited"
        ELSE proc[w]]

(***************************************************************************)
(* HTTP responses                                                          *)
(***************************************************************************)
NoBootstrap == [venv |-> "skipped", test |-> "skipped", pip |-> "skipped"]

\* had_session / prev_cid: the registry entry of the project when the request
\* arrived; ran: the request issued a `docker run`
Response(op, project_id, code, container_id, running, ran, bootstrap) ==
    [op |-> op, project |-> project_id, code |-> code,
     container_id |-> container_id, container_running |-> running,
     had_session |-> project_id \in DOMAIN active_containers,
     prev_cid |-> IF project_id \in DOMAIN active_containers
                  THEN active_containers[project_id] ELSE NoCid,
     ran |-> ran, bootstrap |-> bootstrap]

NoResponse ==
    [op |-> "none", project |-> "none", code |-> 0, container_id |-> NoCid,
     container_running |-> FALSE, had_session |-> FALSE, prev_cid |-> NoCid,
     ran |-> FALSE, bootstrap |-> NoBootstrap]

(***************************************************************************)
(* create_project, upload_project                                          *)
(***************************************************************************)
\* uuid4 never repeats: the id is one no earlier call returned
create_project(project_id) ==
    /\ LoopFree
    /\ project_id \in Projects \ created
    /\ created' = created \cup {project_id}
    /\ project_dirs' = project_dirs \cup {project_id}
    /\ resp' = Response("create", project_id, 200, NoCid, FALSE, FALSE, NoBootstrap)
    /\ UNCHANGED <<docker_available, workspaces, active_containers, containers,
                   docker_runs>>
    /\ UNCHANGED bridge_vars

\* is_zip: the file name ends in .zip; good_zip: ZipFile can extract it.
\* workspace_dir.mkdir(exist_ok=True) has no parents=True: it raises when the
\* project directory does not exist, and it has run before the archive is read.
upload_project(project_id, is_zip, good_zip) ==
    /\ LoopFree
    /\ project_id \in Projects
    /\ IF ~is_zip
       THEN /\ resp' = Response("upload", project_id, 400, NoCid, FALSE, FALSE, NoBootstrap)
            /\ UNCHANGED workspaces
       ELSE IF project_id \notin project_dirs
       THEN /\ resp' = Response("upload", project_id, 500, NoCid, FALSE, FALSE, NoBootstrap)
            /\ UNCHANGED workspaces
       ELSE /\ workspaces' = workspaces \cup {project_id}
            /\ resp' = Response("upload", project_id, IF good_zip THEN 200 ELSE 500,
                                NoCid, FALSE, FALSE, NoBootstrap)
    /\ UNCHANGED <<docker_available, created, project_dirs, active_containers,
                   containers, docker_runs>>
    /\ UNCHANGED bridge_vars

(***************************************************************************)
(* start_container                                                         *)
(***************************************************************************)
\* the docker exec commands of setup_python_environment_subprocess and what
\* came back from each; a command not issued is "skipped"
setup_python_environment_subprocess(venv, test, pip) ==
    IF Failed(venv)
    THEN [venv |-> venv, test |-> "skipped", pip |-> "skipped"]
    ELSE IF test = "ok"
         THEN [venv |-> venv, test |-> test, pip |-> pip]
         ELSE [venv |-> venv, test |-> test, pip |-> "skipped"]

BootstrapRuns ==
    {setup_python_environment_subprocess(v, t, p) : v \in Results, t \in Results, p \in Results}

\* a start_container that looked for the workspace before docker_available
StartPrecheck_WorkspaceFirst(project_id) ==
    IF project_id \notin workspaces THEN 404
    ELSE IF ~docker_available THEN 503
    ELSE 0

\* the checks before the try block: the status code they raise, 0 to go on
StartPrecheck(project_id) ==
    IF ~docker_available THEN 503
    ELSE IF project_id \notin workspaces THEN 404
    ELSE 0

\* a start_container that answered 500 when a bootstrap command did not go
\* through, and took the registry entry back
start_container_BootstrapFatal(project_id, o, bootstrap) ==
    /\ LoopFree
    /\ project_id \in Projects
    /\ IF StartPrecheck(project_id) # 0
       THEN /\ resp' = Response("start", project_id, StartPrecheck(project_id),
                                NoCid, FALSE, FALSE, NoBootstrap)
            /\ UNCHANGED <<active_containers, containers, docker_runs>>
       ELSE /\ docker_runs < MaxRuns
            /\ o \in DockerRunOutcomes(project_id)
            /\ docker_runs' = docker_runs + 1
            /\ containers' = ContainersAfterRun(project_id, o)
            /\ IF Failed(o.result) \/ \E k \in DOMAIN bootstrap : Failed(bootstrap[k])
               THEN /\ resp' = Response("start", project_id, 500, NoCid, FALSE, TRUE,
                                        NoBootstrap)
                    /\ UNCHANGED active_containers
               ELSE /\ active_containers' =
                           Put(active_containers, project_id, docker_runs + 1)
                    /\ resp' = Response("start", project_id, 200, docker_runs + 1,
                                        TRUE, TRUE, bootstrap)
    /\ UNCHANGED <<docker_available, created, project_dirs, workspaces>>
    /\ UNCHANGED bridge_vars

\* o: what `docker run` did; bootstrap: what the commands of
\* setup_python_environment_subprocess returned, which start_container never
\* sees (the function returns None and catches every exception itself)
start_container(project_id, o, bootstrap) ==
    /\ LoopFree
    /\ project_id \in Projects
    /\ IF StartPrecheck(project_id) # 0
       THEN /\ resp' = Response("start", project_id, StartPrecheck(project_id),
                                NoCid, FALSE, FALSE, NoBootstrap)
            /\ UNCHANGED <<active_containers, containers, docker_runs>>
       ELSE /\ docker_runs < MaxRuns
            /\ o \in DockerRunOutcomes(project_id)
            /\ docker_runs' = docker_runs + 1
            /\ containers' = ContainersAfterRun(project_id, o)
            /\ IF Failed(o.result)
               THEN /\ resp' = Response("start", project_id, 500, NoCid, FALSE, TRUE,
                                        NoBootstrap)
                    /\ UNCHANGED active_containers
               ELSE /\ active_containers' =
                           Put(active_containers, project_id, docker_runs + 1)
                    /\ resp' = Response("start", project_id, 200, docker_runs + 1,
                                        TRUE, TRUE, bootstrap)
    /\ UNCHANGED <<docker_available, created, project_dirs, workspaces>>
    /\ UNCHANGED bridge_vars

(***************************************************************************)
(* get_project_status, delete_project                                      *)
(***************************************************************************)
\* a get_project_status that kept the entry when the inspection failed
get_project_status_KeepsEntry(project_id, timeout) ==
    /\ LoopFree
    /\ project_id \in Projects
    /\ IF project_id \in DOMAIN active_containers /\ docker_available
       THEN LET container_id == active_containers[project_id]
                result == DockerInspect(container_id, timeout)
            IN  IF ~Failed(result.result)
                THEN resp' = Response("status", project_id, 200, container_id,
                                      result.stdout = "true", FALSE, NoBootstrap)
                ELSE resp' = Response("status", project_id, 200, NoCid, FALSE,
                                      FALSE, NoBootstrap)
       ELSE resp' = Response("status", project_id, 200, NoCid, FALSE, FALSE,
                             NoBootstrap)
    /\ UNCHANGED <<docker_available, created, project_dirs, workspaces,
                   active_containers, containers, docker_runs>>
    /\ UNCHANGED bridge_vars

\* timeout: the `docker inspect` of the request timed out
get_project_status(project_id, timeout) ==
    /\ LoopFree
    /\ project_id \in Projects
    /\ IF project_id \in DOMAIN active_containers /\ docker_available
       THEN LET container_id == active_containers[project_id]
                result == DockerInspect(container_id, timeout)
            IN  IF ~Failed(result.result)
                THEN /\ resp' = Response("status", project_id, 200, container_id,
                                         result.stdout = "true", FALSE, NoBootstrap)
                     /\ UNCHANGED active_containers
                ELSE /\ active_containers' = Del(active_containers, project_id)
                     /\ resp' = Response("status", project_id, 200, NoCid, FALSE,
                                         FALSE, NoBootstrap)
       ELSE /\ resp' = Response("status", project_id, 200, NoCid, FALSE, FALSE,
                                NoBootstrap)
            /\ UNCHANGED active_containers
    /\ UNCHANGED <<docker_available, created, project_dirs, workspaces, containers,
                   docker_runs>>
    /\ UNCHANGED bridge_vars

\* stop, rm: what run_docker_command returns for `docker stop` and `docker rm`;
\* neither result is looked at.  rmtree_ok: shutil.rmtree removed the project
\* directory; when it raises (a file the container's user 1000 wrote that the
\* backend may not remove), the directory stays and the request is answered
\* 500, after the registry entry has gone
delete_project(project_id, stop, rm, rmtree_ok) ==
    /\ LoopFree
    /\ project_id \in Projects
    /\ IF project_id \in DOMAIN active_containers /\ docker_available
       THEN LET container_id == active_containers[project_id]
                after == ContainersAfterRm(
                             ContainersAfterStop(containers, container_id, stop),
                             container_id, rm)
            IN  /\ containers' = after
                /\ proc' = ProcsAfterStop(containers, after)
                /\ active_containers' = Del(active_containers, project_id)
       ELSE UNCHANGED <<containers, active_containers, proc>>
    /\ IF project_id \in project_dirs /\ ~rmtree_ok
       THEN /\ UNCHANGED <<project_dirs, workspaces>>
            /\ resp' = Response("delete", project_id, 500, NoCid, FALSE, FALSE,
                                NoBootstrap)
       ELSE /\ project_dirs' = project_dirs \ {project_id}
            /\ workspaces' = workspaces \ {project_id}
            /\ resp' = Response("delete", project_id, 200, NoCid, FALSE, FALSE,
                                NoBootstrap)
    /\ UNCHANGED <<docker_available, created, docker_runs>>
    /\ UNCHANGED <<ws_pc, ws_target, attached, client_closed, server_closed,
                   client_msgs, recv_count, sent, terminated, emitted, read_count,
                   stdin, rd, wr, blocked, attaches>>

(***************************************************************************)
(* The environment of the lifecycle handlers                               *)
(***************************************************************************)
\* a container's main process ends (sleep over, killed, out of memory), and
\* with it the exec processes inside
ContainerExits(c) ==
    /\ c \in DOMAIN containers
    /\ containers[c].running
    /\ containers' = [containers EXCEPT ![c].running = FALSE]
    /\ proc' = ProcsAfterStop(containers, containers')
    /\ UNCHANGED <<docker_available, created, project_dirs, workspaces,
                   active_containers, docker_runs, resp>>
    /\ UNCHANGED <<ws_pc, ws_target, attached, client_closed, server_closed,
                   client_msgs, recv_count, sent, terminated, emitted, read_count,
                   stdin, rd, wr, blocked, attaches>>

(***************************************************************************)
(* Initial state and the lifecycle specification                           *)
(***************************************************************************)
Empty == [x \in {} |-> NoCid]

BridgeIdle ==
    /\ ws_pc = [w \in Conns |-> "idle"]
    /\ ws_target = [w \in Conns |-> NoCid]
    /\ attached = [w \in Conns |-> FALSE]
    /\ client_closed = [w \in Conns |-> FALSE]
    /\ server_closed = [w \in Conns |-> FALSE]
    /\ client_msgs = [w \in Conns |-> <<>>]
    /\ recv_count = [w \in Conns |-> 0]
    /\ sent = [w \in Conns |-> <<>>]
    /\ proc = [w \in Conns |-> "none"]
    /\ terminated = [w \in Conns |-> FALSE]
    /\ emitted = [w \in Conns |-> <<>>]
    /\ read_count = [w \in Conns |-> 0]
    /\ stdin = [w \in Conns |-> <<>>]
    /\ rd = [w \in Conns |-> "none"]
    /\ wr = [w \in Conns |-> "none"]
    /\ blocked = NoConn
    /\ attaches = 0

\* the module has just been imported: check_docker_available() has run, the
\* registry is empty
Init ==
    /\ docker_available \in BOOLEAN
    /\ created = {}
    /\ project_dirs = {}
    /\ workspaces = {}
    /\ active_containers = Empty
    /\ containers = Empty
    /\ docker_runs = 0
    /\ resp = NoResponse
    /\ BridgeIdle

\* one HTTP request, handled to its response
Request ==
    \E project_id \in Projects :
        \/ create_project(project_id)
        \/ \E is_zip \in BOOLEAN, good_zip \in BOOLEAN :
               upload_project(project_id, is_zip, good_zip)
        \/ \E o \in [result : Results, made : BOOLEAN], bootstrap \in BootstrapRuns :
               start_container(project_id, o, bootstrap)
        \/ \E timeout \in BOOLEAN : get_project_status(project_id, timeout)
        \/ \E stop \in Results, rm \in Results, rmtree_ok \in BOOLEAN :
               delete_project(project_id, stop, rm, rmtree_ok)

Next ==
    \/ Request
    \/ \E c \in Cids : ContainerExits(c)

Spec == Init /\ [][Next]_vars

(***************************************************************************)
(* The terminal bridge: messages and json.loads                            *)
(***************************************************************************)
EchoHi == "echo hi\n"
ResizeFrame == "{\"type\":\"resize\",\"cols\":100,\"rows\":40}"
OtherObject == "{\"type\":\"ping\"}"
Digit == "5"
Null == "null"

\* the text messages a client sends
Msgs == {EchoHi, ResizeFrame, OtherObject, Digit, Null}

\* the characters a shell writes
OutChars == {"h", "i"}

\* json.loads(data): kind "error" is a JSONDecodeError, any other kind the
\* Python type of the value; a dict carries its value for the key 'type'
JsonLoads(data) ==
    CASE data = ResizeFrame -> [kind |-> "dict", type |-> "resize"]
      [] data = OtherObject -> [kind |-> "dict", type |-> "ping"]
      [] data = "{}"        -> [kind |-> "dict", type |-> "None"]
      [] data = Digit       -> [kind |-> "int", type |-> "None"]
      [] data = Null        -> [kind |-> "NoneType", type |-> "None"]
      [] data = "true"      -> [kind |-> "bool", type |-> "None"]
      [] data = "\"ls\""    -> [kind |-> "str", type |-> "None"]
      [] data = "[1]"       -> [kind |-> "list", type |-> "None"]
      [] OTHER              -> [kind |-> "error", type |-> "None"]

\* what write_to_container does with a received message: "consume" is the
\* `continue` of a resize, "write" the fall-through to process.stdin.write,
\* "raise" the AttributeError of resize_data.get on a value that is no dict,
\* which only the pump's outer `except Exception` catches
Inbound(data) ==
    LET resize_data == JsonLoads(data)
    IN  IF resize_data.kind = "error" THEN "write"
        ELSE IF resize_data.kind # "dict" THEN "raise"
        ELSE IF resize_data.type = "resize" THEN "consume"
        ELSE "write"

(***************************************************************************)
(* websocket_terminal                                                      *)
(***************************************************************************)
Bridging(w) == ws_pc[w] = "bridging"

\* the messages of the client that receive_text() has not returned yet
Inbox(w) == SubSeq(client_msgs[w], recv_count[w] + 1, Len(client_msgs[w]))

\* the characters in the stdout pipe that read(1) has not returned yet
Pipe(w) == SubSeq(emitted[w], read_count[w] + 1, Len(emitted[w]))

\* a client opens /ws/term/<container_id>; the slot starts afresh
client_connect(w, container_id) ==
    /\ ws_pc[w] \in {"idle", "done"}
    /\ attaches < MaxAttach
    /\ attaches' = attaches + 1
    /\ ws_pc' = [ws_pc EXCEPT ![w] = "connecting"]
    /\ ws_target' = [ws_target EXCEPT ![w] = container_id]
    /\ attached' = [attached EXCEPT ![w] = FALSE]
    /\ client_closed' = [client_closed EXCEPT ![w] = FALSE]
    /\ server_closed' = [server_closed EXCEPT ![w] = FALSE]
    /\ client_msgs' = [client_msgs EXCEPT ![w] = <<>>]
    /\ recv_count' = [recv_count EXCEPT ![w] = 0]
    /\ sent' = [sent EXCEPT ![w] = <<>>]
    /\ proc' = [proc EXCEPT ![w] = "none"]
    /\ terminated' = [terminated EXCEPT ![w] = FALSE]
    /\ emitted' = [emitted EXCEPT ![w] = <<>>]
    /\ read_count' = [read_count EXCEPT ![w] = 0]
    /\ stdin' = [stdin EXCEPT ![w] = <<>>]
    /\ rd' = [rd EXCEPT ![w] = "none"]
    /\ wr' = [wr EXCEPT ![w] = "none"]
    /\ UNCHANGED blocked
    /\ UNCHANGED lifecycle_vars

\* a refusal that closed the channel without a word
Refuse_NoDiagnostic(w, diagnostic) ==
    /\ ws_pc' = [ws_pc EXCEPT ![w] = "done"]
    /\ server_closed' = [server_closed EXCEPT ![w] = TRUE]
    /\ UNCHANGED <<attached, proc, rd, wr, sent>>

\* the handler returns without having started the pumps; diagnostic is the
\* sequence of send_text payloads that went out before websocket.close()
Refuse(w, diagnostic) ==
    /\ ws_pc' = [ws_pc EXCEPT ![w] = "done"]
    /\ sent' = [sent EXCEPT ![w] = sent[w] \o diagnostic]
    /\ server_closed' = [server_closed EXCEPT ![w] = TRUE]
    /\ UNCHANGED <<attached, proc, rd, wr>>

\* the handler from websocket.accept() to asyncio.gather(): no await in
\* between suspends except the sends of a refusal.
\* timeout: docker inspect timed out; popen_ok: Popen started the process
websocket_terminal(w, timeout, popen_ok) ==
    /\ ws_pc[w] = "connecting"
    /\ LoopFree
    /\ LET container_id == ws_target[w]
           result == DockerInspect(container_id, timeout)
       IN  IF client_closed[w]
           THEN \* accept() raises: `return`
                Refuse(w, <<>>)
           ELSE IF ~docker_available
           THEN Refuse(w, <<"Error: Docker is not available">>)
           ELSE IF Failed(result.result)
           THEN Refuse(w, <<"Error: Container not found or not running">>)
           ELSE IF result.stdout # "true"
           THEN Refuse(w, <<"Error: Container is not running">>)
           ELSE IF ~popen_ok
           THEN \* Popen raises: `except Exception` sends str(e) and closes
                Refuse(w, <<"Error: Popen">>)
           ELSE /\ proc' = [proc EXCEPT ![w] = "alive"]
                /\ attached' = [attached EXCEPT ![w] = TRUE]
                /\ rd' = [rd EXCEPT ![w] = "start"]
                /\ wr' = [wr EXCEPT ![w] = "recv"]
                /\ ws_pc' = [ws_pc EXCEPT ![w] = "bridging"]
                /\ UNCHANGED <<sent, server_closed>>
    /\ UNCHANGED <<ws_target, client_closed, client_msgs, recv_count, terminated,
                   emitted, read_count, stdin, blocked, attaches>>
    /\ UNCHANGED lifecycle_vars

\* read_from_container, top of the loop ("start": the task's first run,
\* "ready": after a suspension): process.poll(), then the blocking
\* process.stdout.read(1), which holds the event loop's thread
read_poll(w) ==
    /\ Bridging(w)
    /\ rd[w] \in {"start", "ready"}
    /\ LoopFree
    /\ IF proc[w] # "alive"
       THEN rd' = [rd EXCEPT ![w] = "done"] /\ UNCHANGED blocked
       ELSE rd' = [rd EXCEPT ![w] = "reading"] /\ blocked' = w
    /\ UNCHANGED <<ws_pc, ws_target, attached, client_closed, server_closed,
                   client_msgs, recv_count, sent, proc, terminated, emitted,
                   read_count, stdin, wr, attaches>>
    /\ UNCHANGED lifecycle_vars

\* read_from_container, read(1) returns: a character when the pipe holds one,
\* '' at end of file (the process has exited and the pipe is drained).
\* yields: `await websocket.send_text(data)` gave the loop to other tasks;
\* when it did not, the pump is at once back in poll() and read(1).
read_from_container(w, yields) ==
    /\ Bridging(w)
    /\ rd[w] = "reading"
    /\ Pipe(w) # <<>> \/ proc[w] # "alive"
    /\ IF Pipe(w) # <<>>
       THEN LET data == Head(Pipe(w))
            IN  /\ read_count' = [read_count EXCEPT ![w] = read_count[w] + 1]
                /\ IF client_closed[w]
                   THEN \* send_text raises: `break`
                        /\ rd' = [rd EXCEPT ![w] = "done"]
                        /\ blocked' = NoConn
                        /\ UNCHANGED sent
                   ELSE /\ sent' = [sent EXCEPT ![w] = Append(sent[w], data)]
                        /\ IF yields
                           THEN rd' = [rd EXCEPT ![w] = "ready"] /\ blocked' = NoConn
                           ELSE IF proc[w] # "alive"
                           THEN rd' = [rd EXCEPT ![w] = "done"] /\ blocked' = NoConn
                           ELSE UNCHANGED <<rd, blocked>>
       ELSE \* '': `await asyncio.sleep(0.01)`, then the top of the loop
            /\ rd' = [rd EXCEPT ![w] = "ready"]
            /\ blocked' = NoConn
            /\ UNCHANGED <<read_count, sent>>
    /\ UNCHANGED <<ws_pc, ws_target, attached, client_closed, server_closed,
                   client_msgs, recv_count, proc, terminated, emitted, stdin, wr,
                   attaches>>
    /\ UNCHANGED lifecycle_vars

\* write_to_container: receive_text() returns the next message, or raises
\* WebSocketDisconnect once the client has closed and the inbox is empty.
\* asyncio.gather schedules read_from_container first: this task does not
\* start before that one has run to its first suspension.
write_to_container(w) ==
    /\ Bridging(w)
    /\ wr[w] = "recv"
    /\ rd[w] # "start"
    /\ LoopFree
    /\ Inbox(w) # <<>> \/ client_closed[w]
    /\ IF Inbox(w) # <<>>
       THEN LET data == Head(Inbox(w))
            IN  /\ recv_count' = [recv_count EXCEPT ![w] = recv_count[w] + 1]
                /\ IF Inbound(data) = "consume"
                   THEN UNCHANGED <<stdin, wr>>
                   ELSE IF Inbound(data) = "raise"
                   THEN wr' = [wr EXCEPT ![w] = "done"] /\ UNCHANGED stdin
                   ELSE IF proc[w] = "alive"
                   THEN stdin' = [stdin EXCEPT ![w] = Append(stdin[w], data)]
                        /\ UNCHANGED wr
                   ELSE \* BrokenPipeError from write/flush: `break`
                        wr' = [wr EXCEPT ![w] = "done"] /\ UNCHANGED stdin
       ELSE /\ wr' = [wr EXCEPT ![w] = "done"]
            /\ UNCHANGED <<recv_count, stdin>>
    /\ UNCHANGED <<ws_pc, ws_target, attached, client_closed, server_closed,
                   client_msgs, sent, proc, terminated, emitted, read_count, rd,
                   blocked, attaches>>
    /\ UNCHANGED lifecycle_vars

\* a `finally` block that also stopped the container of the session
Teardown_StopsContainer(w, term_exits) ==
    /\ IF proc[w] = "alive"
       THEN /\ terminated' = [terminated EXCEPT ![w] = TRUE]
            /\ proc' = [proc EXCEPT ![w] = IF term_exits THEN "exited" ELSE "alive"]
       ELSE UNCHANGED <<terminated, proc>>
    /\ containers' = ContainersAfterStop(containers, ws_target[w], "ok")
    /\ UNCHANGED active_containers

\* a `finally` block that left the shell process to itself
Teardown_NoTerminate(w, term_exits) ==
    UNCHANGED <<terminated, proc, active_containers, containers>>

\* the `finally` block up to the last websocket.close(): process.terminate()
\* and process.wait(timeout=5) when poll() shows the process alive, and
\* nothing else.  term_exits: the process ended within the 5 s; when it did
\* not, TimeoutExpired is swallowed by the bare `except`
Teardown(w, term_exits) ==
    /\ IF proc[w] = "alive"
       THEN /\ terminated' = [terminated EXCEPT ![w] = TRUE]
            /\ proc' = [proc EXCEPT ![w] = IF term_exits THEN "exited" ELSE "alive"]
       ELSE UNCHANGED <<terminated, proc>>
    /\ UNCHANGED <<active_containers, containers>>

\* asyncio.gather has both pumps' results: the handler runs its `finally`
\* block and returns
websocket_finally(w, term_exits) ==
    /\ Bridging(w)
    /\ rd[w] = "done" /\ wr[w] = "done"
    /\ LoopFree
    /\ Teardown(w, term_exits)
    /\ server_closed' = [server_closed EXCEPT ![w] = TRUE]
    /\ ws_pc' = [ws_pc EXCEPT ![w] = "done"]
    /\ UNCHANGED <<ws_target, attached, client_closed, client_msgs, recv_count,
                   sent, emitted, read_count, stdin, rd, wr, blocked, attaches>>
    /\ UNCHANGED <<docker_available, created, project_dirs, workspaces,
                   docker_runs, resp>>

(***************************************************************************)
(* The environment of the bridge: client and shell process                 *)
(***************************************************************************)
client_send(w, data) ==
    /\ Bridging(w)
    /\ ~client_closed[w]
    /\ Len(client_msgs[w]) < MaxIn
    /\ client_msgs' = [client_msgs EXCEPT ![w] = Append(client_msgs[w], data)]
    /\ UNCHANGED <<ws_pc, ws_target, attached, client_closed, server_closed,
                   recv_count, sent, proc, terminated, emitted, read_count, stdin,
                   rd, wr, blocked, attaches>>
    /\ UNCHANGED lifecycle_vars

client_close(w) ==
    /\ ws_pc[w] \in {"connecting", "bridging"}
    /\ ~client_closed[w]
    /\ client_closed' = [client_closed EXCEPT ![w] = TRUE]
    /\ UNCHANGED <<ws_pc, ws_target, attached, server_closed, client_msgs,
                   recv_count, sent, proc, terminated, emitted, read_count, stdin,
                   rd, wr, blocked, attaches>>
    /\ UNCHANGED lifecycle_vars

\* the process writes one character to its stdout (stderr is merged into it)
shell_emit(w, ch) ==
    /\ proc[w] = "alive"
    /\ Len(emitted[w]) < MaxOut
    /\ emitted' = [emitted EXCEPT ![w] = Append(emitted[w], ch)]
    /\ UNCHANGED <<ws_pc, ws_target, attached, client_closed, server_closed,
                   client_msgs, recv_count, sent, proc, terminated, read_count,
                   stdin, rd, wr, blocked, attaches>>
    /\ UNCHANGED lifecycle_vars

\* the process ends by itself: the shell exits, or its container stops
shell_exit(w) ==
    /\ proc[w] = "alive"
    /\ proc' = [proc EXCEPT ![w] = "exited"]
    /\ UNCHANGED <<ws_pc, ws_target, attached, client_closed, server_closed,
                   client_msgs, recv_count, sent, terminated, emitted, read_count,
                   stdin, rd, wr, blocked, attaches>>
    /\ UNCHANGED lifecycle_vars

(***************************************************************************)
(* The bridge specification: one started session, then terminal traffic    *)
(***************************************************************************)
\* the backend after create_project, upload_project and start_container of
\* p1 (Docker available), or after import alone (Docker unavailable)
BridgeInit ==
    /\ docker_available \in BOOLEAN
    /\ created = IF docker_available THEN {"p1"} ELSE {}
    /\ project_dirs = created
    /\ workspaces = created
    /\ active_containers = IF docker_available THEN Put(Empty, "p1", 1) ELSE Empty
    /\ containers = IF docker_available
                    THEN Put(Empty, 1, [project |-> "p1", running |-> TRUE])
                    ELSE Empty
    /\ docker_runs = IF docker_available THEN 1 ELSE 0
    /\ resp = IF docker_available
              THEN [NoResponse EXCEPT !.op = "start", !.project = "p1", !.code = 200,
                                      !.container_id = 1, !.container_running = TRUE,
                                      !.ran = TRUE,
                                      !.bootstrap = setup_python_environment_subprocess(
                                                        "ok", "fail", "ok")]
              ELSE NoResponse
    /\ BridgeIdle

\* the container ids a client asks for: the started one and one that is not
AttachTargets == {1, 2}

\* a step of the event loop in the terminal handler of connection w
BridgeStep(w) ==
    \/ \E timeout \in BOOLEAN, popen_ok \in BOOLEAN : websocket_terminal(w, timeout, popen_ok)
    \/ read_poll(w)
    \/ \E yields \in BOOLEAN : read_from_container(w, yields)
    \/ write_to_container(w)
    \/ \E term_exits \in BOOLEAN : websocket_finally(w, term_exits)

\* a step of the client or of the shell process of connection w
BridgeEnv(w) ==
    \/ \E container_id \in AttachTargets : client_connect(w, container_id)
    \/ \E data \in Msgs : client_send(w, data)
    \/ client_close(w)
    \/ \E ch \in OutChars : shell_emit(w, ch)
    \/ shell_exit(w)

\* one browser tab: the terminal of the front end, which opens its next
\* connection after the one before has ended
OneClient == {"w1"}

BridgeNext ==
    \/ \E w \in OneClient : BridgeStep(w)
    \/ \E w \in OneClient : BridgeEnv(w)
    \/ \E c \in Cids : ContainerExits(c)

BridgeSpec == BridgeInit /\ [][BridgeNext]_vars

(***************************************************************************)
(* Lifecycle properties                                                    *)
(***************************************************************************)
\* C1: a start request for a project that already has an entry in
\* active_containers succeeds (200) and returns the container id of that
\* entry.
C1_IdempotentStart ==
    (resp.op = "start" /\ resp.had_session) =>
        (resp.code = 200 /\ resp.container_id = resp.prev_cid)

\* C2: every project has at most one live container, and when the registry
\* holds a handle for the project, the handle names a container of that
\* project and no other container of the project is live.
C2_OneSessionPerProject ==
    \A p \in Projects :
        /\ Cardinality(LiveContainersOf(p)) <= 1
        /\ p \in DOMAIN active_containers =>
              /\ active_containers[p] \in ContainersOf(p)
              /\ LiveContainersOf(p) \subseteq {active_containers[p]}

\* a second start has issued its docker run for a project whose registered
\* container is live
C2_Witness ==
    /\ resp.op = "start" /\ resp.had_session /\ resp.ran
    /\ resp.project \in DOMAIN active_containers
    /\ LiveContainersOf(resp.project) = {active_containers[resp.project]}

\* C3: with docker_available false, every start request is answered 503, no
\* docker run is ever issued, and neither the registry nor the daemon's
\* containers ever change.
C3_FailFastUnavailable ==
    ~docker_available =>
        /\ docker_runs = 0
        /\ active_containers = Empty
        /\ containers = Empty
        /\ resp.op = "start" => (resp.code = 503 /\ ~resp.ran)

\* a start was answered with docker unavailable, for a project whose
\* workspace exists, after a start for a project whose workspace does not
C3_Witness ==
    /\ ~docker_available
    /\ resp.op = "start" /\ resp.code = 503
    /\ resp.project \in workspaces
    /\ Projects \ workspaces # {}

(***************************************************************************)
(* Bridge properties                                                       *)
(***************************************************************************)
\* a JSON object whose 'type' is "resize"
IsResizeFrame(data) ==
    JsonLoads(data).kind = "dict" /\ JsonLoads(data).type = "resize"

\* the step in which write_to_container takes the next message of connection w
Receives(w) == Bridging(w) /\ recv_count'[w] = recv_count[w] + 1

\* the messages receive_text() has returned so far
Received(w) == SubSeq(client_msgs[w], 1, recv_count[w])

NotResize(data) == ~IsResizeFrame(data)

IsPrefix(s, t) == Len(s) <= Len(t) /\ SubSeq(t, 1, Len(s)) = s

\* C4: a resize frame taken by write_to_container is not written to stdin
\* and leaves the pump and the connection running, and the next message
\* that is no resize frame, taken right after it while the shell is alive,
\* is appended to stdin exactly as received.
C4_ResizeConsumed ==
    [][\A w \in Conns : Receives(w) =>
          LET data == Head(Inbox(w))
          IN  /\ IsResizeFrame(data) =>
                    /\ stdin'[w] = stdin[w]
                    /\ wr'[w] = "recv"
                    /\ Bridging(w)'
                    /\ ~server_closed'[w]
              /\ ( /\ recv_count[w] >= 1
                   /\ IsResizeFrame(client_msgs[w][recv_count[w]])
                   /\ ~IsResizeFrame(data)
                   /\ proc[w] = "alive" ) =>
                    /\ stdin'[w] = Append(stdin[w], data)
                    /\ wr'[w] = "recv"]_vars

\* the part of C4 about the resize frame itself: stdin never holds a resize
\* frame, and taking one leaves the pump receiving
ResizeNeverForwarded ==
    \A w \in Conns : \A i \in 1 .. Len(stdin[w]) : ~IsResizeFrame(stdin[w][i])

\* C5: every message that is no resize frame, taken by write_to_container
\* while the shell is alive, is appended verbatim to stdin, and the pump goes
\* on receiving.
C5_FallThrough ==
    [][\A w \in Conns : Receives(w) =>
          LET data == Head(Inbox(w))
          IN  (~IsResizeFrame(data) /\ proc[w] = "alive") =>
                  /\ stdin'[w] = Append(stdin[w], data)
                  /\ wr'[w] = "recv"]_vars

\* C6: on an attached bridge, what was sent to the client is a prefix of what
\* the shell emitted, and all of it once the outbound pump has ended with the
\* client still connected; and while the shell is alive, stdin holds exactly
\* the received messages that are no resize frames, in order.
C6_StreamFidelity ==
    \A w \in Conns : attached[w] =>
        /\ IsPrefix(sent[w], emitted[w])
        /\ (rd[w] = "done" /\ ~client_closed[w]) => sent[w] = emitted[w]
        /\ proc[w] = "alive" => stdin[w] = SelectSeq(Received(w), NotResize)

\* the event loop has a step of the handler of connection w to run: the
\* handler is not waiting for its client or for its shell
HandlerCanStep(w) == ENABLED BridgeStep(w)

\* C7: on an attached bridge with a live shell, while a client message
\* "echo hi\n" is waiting to be received, the handler is never left waiting
\* for shell output: the outbound pump cannot keep the inbound pump from
\* taking the message.
C7_InputNotHeldBack ==
    \A w \in Conns :
        ( /\ Bridging(w) /\ wr[w] = "recv" /\ proc[w] = "alive"
          /\ Inbox(w) # <<>> /\ Head(Inbox(w)) = EchoHi )
        => HandlerCanStep(w)

\* C8: once the client has closed an attached bridge, the handler is never
\* left waiting for the shell: it has a step to take until it has returned,
\* even if the shell produces no further output.
C8_NoOrphanedPump ==
    \A w \in Conns : (Bridging(w) /\ client_closed[w]) => HandlerCanStep(w)

\* C9: once one pump of a bridge has ended, the handler is never left
\* waiting for an event from the other pump's endpoint: it has a step to take
\* until the other pump has ended too and the handler has returned.
C9_PeerCancelled ==
    \A w \in Conns :
        (Bridging(w) /\ (rd[w] = "done" \/ wr[w] = "done")) => HandlerCanStep(w)

\* C10: no step of websocket_terminal, on any path, changes the registry
\* active_containers or the daemon's containers.
C10_SessionOutlivesBridge ==
    [][\A w \in Conns : BridgeStep(w) => UNCHANGED <<active_containers, containers>>]_vars

\* a bridge has run and returned after terminating its own shell process,
\* and the session's container is still running and registered
C10_Witness ==
    \E w \in Conns :
        /\ ws_pc[w] = "done" /\ attached[w] /\ terminated[w]
        /\ ws_target[w] \in DOMAIN containers
        /\ containers[ws_target[w]].running
        /\ "p1" \in DOMAIN active_containers
        /\ active_containers["p1"] = ws_target[w]

(***************************************************************************)
(* delete_project and get_project_status properties                        *)
(***************************************************************************)
\* `docker inspect` would show container c running, in the daemon state cs
RunningIn(cs, c) == c \in DOMAIN cs /\ cs[c].running

\* C11: whenever delete_project runs and the project directory can be removed,
\* it answers 200 "deleted" and the project has no registry entry afterwards;
\* the container of a project that had an entry is no longer running; a
\* project that had no entry (never started, or deleted before) leaves the
\* registry as it was; and a status request that follows a delete reports
\* container_id null and container_running false.
C11_DeleteEvictsIdempotently ==
    [][/\ \A p \in Projects, stop \in Results, rm \in Results :
             delete_project(p, stop, rm, TRUE) =>
                 /\ resp'.op = "delete" /\ resp'.code = 200
                 /\ p \notin DOMAIN active_containers'
                 /\ p \in DOMAIN active_containers =>
                        ~RunningIn(containers', active_containers[p])
                 /\ p \notin DOMAIN active_containers =>
                        active_containers' = active_containers
       /\ \A timeout \in BOOLEAN :
             ( /\ resp.op = "delete" /\ resp.code = 200
               /\ get_project_status(resp.project, timeout) ) =>
                 /\ resp'.container_id = NoCid
                 /\ ~resp'.container_running]_vars

\* the parts of C11 that do not depend on `docker stop` going through: the
\* answer, the eviction, the unchanged registry of a project without entry
DeleteAnswersAndEvicts ==
    [][\A p \in Projects, stop \in Results, rm \in Results :
          delete_project(p, stop, rm, TRUE) =>
              /\ resp'.op = "delete" /\ resp'.code = 200
              /\ p \notin DOMAIN active_containers'
              /\ p \notin DOMAIN active_containers =>
                     active_containers' = active_containers]_vars

\* C12: after a delete that removed a registry entry, the container the entry
\* named is not running, whatever `docker stop` and `docker rm` returned.
C12_EvictionAfterTermination ==
    (resp.op = "delete" /\ resp.had_session) =>
        ~RunningIn(containers, resp.prev_cid)

(***************************************************************************)
(* Two clients: terminal connections that overlap in time                  *)
(***************************************************************************)
\* two browser tabs (or two users) on the terminal of the same backend: each
\* connection has its own handler of websocket_terminal on the event loop
\* the clients only watch: they connect and close, the shells write "h" and
\* exit; keystrokes are the subject of BridgeSpec
SharedEnv(w) ==
    \/ \E container_id \in AttachTargets : client_connect(w, container_id)
    \/ client_close(w)
    \/ shell_emit(w, "h")
    \/ shell_exit(w)

SharedNext ==
    \/ \E w \in Conns : BridgeStep(w)
    \/ \E w \in Conns : SharedEnv(w)
    \/ \E c \in Cids : ContainerExits(c)

SharedSpec == BridgeInit /\ [][SharedNext]_vars

\* the bridges that are pumping for container c: the handler is between
\* asyncio.gather and its `finally` block
BridgesOn(c) == {w \in Conns : Bridging(w) /\ ws_target[w] = c}

\* C13: at no time are two bridges pumping for the same container: while
\* one bridge is attached to a container, the handler of a second attach
\* request for that container does not reach asyncio.gather.
C13_OneBridgePerSession ==
    \A c \in Cids : Cardinality(BridgesOn(c)) <= 1

(***************************************************************************)
(* Attach and teardown properties                                          *)
(***************************************************************************)
\* the step in which the handler of connection w runs from accept() to its
\* refusal or to asyncio.gather
HandlesAttach(w) == ws_pc[w] = "connecting" /\ ws_pc'[w] # "connecting"

\* the diagnostics the claim allows for the refusal of connection w: the one
\* of its cause; an inspection that timed out reads as "not found"
RefusalDiagnostics(w) ==
    IF ~docker_available
    THEN {"Error: Docker is not available"}
    ELSE IF ws_target[w] \notin DOMAIN containers
    THEN {"Error: Container not found or not running"}
    ELSE {"Error: Container not found or not running",
          "Error: Container is not running"}

\* C14: when the handler takes an attach request while Docker is unavailable,
\* or for a container that does not exist or is not running, it returns
\* without a shell process and without pumps, and the channel is closed; a
\* client that is still connected has by then been sent exactly one message,
\* the diagnostic of the refusal.
C14_RefusedAttachDiagnosed ==
    [][\A w \in Conns :
          ( /\ HandlesAttach(w)
            /\ ~docker_available \/ ~RunningIn(containers, ws_target[w]) ) =>
              /\ ws_pc'[w] = "done"
              /\ ~attached'[w]
              /\ proc'[w] = "none" /\ rd'[w] = "none" /\ wr'[w] = "none"
              /\ server_closed'[w]
              /\ ~client_closed[w] =>
                    /\ Len(sent'[w]) = 1
                    /\ sent'[w][1] \in RefusalDiagnostics(w)]_vars

\* an attach to a container that has stopped was refused: its client has the
\* one diagnostic, the channel is closed, no shell process was started
C14_Witness ==
    \E w \in Conns :
        /\ ws_pc[w] = "done" /\ ~attached[w] /\ proc[w] = "none"
        /\ server_closed[w] /\ ~client_closed[w]
        /\ ws_target[w] \in DOMAIN containers
        /\ sent[w] = <<"Error: Container is not running">>

(***************************************************************************)
(* start_container properties                                              *)
(***************************************************************************)
\* the step of a start request for project p that issued its `docker run`
StartRuns(p) ==
    /\ resp'.op = "start" /\ resp'.project = p /\ resp'.ran
    /\ docker_runs' = docker_runs + 1

\* C15: a start request whose `docker run` succeeded registers the new
\* container and answers 200 "started" with its id, whatever the commands of
\* the bootstrap returned (failure, timeout, or not issued); and the bootstrap
\* issued `pip install` only after the venv command and the test for
\* requirements.txt both succeeded.
C15_BootstrapAbsorbed ==
    [][\A p \in Projects : StartRuns(p) =>
          \A o \in [result : Results, made : BOOLEAN], b \in BootstrapRuns :
              (start_container(p, o, b) /\ o.result = "ok") =>
                  /\ resp'.code = 200
                  /\ resp'.container_id = docker_runs'
                  /\ p \in DOMAIN active_containers'
                  /\ active_containers'[p] = resp'.container_id
                  /\ RunningIn(containers', resp'.container_id)
                  /\ resp'.bootstrap = b
                  /\ b.pip # "skipped" => (b.venv = "ok" /\ b.test = "ok")]_vars

\* a start was answered 200 and registered its container although the
\* installation of the requirements timed out
C15_Witness ==
    /\ resp.op = "start" /\ resp.code = 200
    /\ resp.bootstrap = [venv |-> "ok", test |-> "ok", pip |-> "none"]
    /\ resp.project \in DOMAIN active_containers
    /\ active_containers[resp.project] = resp.container_id

\* C16: after a start request that failed, the answer is 404 (no workspace),
\* 500 (container creation failed or timed out) or 503, never 200; the
\* registry entry of the project is what it was when the request arrived;
\* and the container that the request's `docker run` created, if any, is not
\* running (it would be in no registry entry).
C16_FailedStartLeavesNothing ==
    (resp.op = "start" /\ resp.code # 200) =>
        /\ resp.code \in {404, 500, 503}
        /\ resp.code = 404 => resp.project \notin workspaces
        /\ (resp.project \in DOMAIN active_containers) = resp.had_session
        /\ resp.had_session => active_containers[resp.project] = resp.prev_cid
        /\ resp.ran => ~RunningIn(containers, docker_runs)

\* the parts of C16 about the answer and the registry
FailedStartKeepsRegistry ==
    (resp.op = "start" /\ resp.code # 200) =>
        /\ resp.code \in {404, 500, 503}
        /\ (resp.project \in DOMAIN active_containers) = resp.had_session
        /\ resp.had_session => active_containers[resp.project] = resp.prev_cid

(***************************************************************************)
(* The whole backend: lifecycle requests and one terminal client           *)
(***************************************************************************)
\* the terminal client connects and closes, its shell writes "h" and exits;
\* keystrokes are the subject of BridgeSpec
SessionEnv(w) ==
    \/ \E container_id \in AttachTargets : client_connect(w, container_id)
    \/ client_close(w)
    \/ shell_emit(w, "h")
    \/ shell_exit(w)

\* one HTTP request, as in Request, of a backend with a single user and a
\* single project; the workspace has no requirements.txt, and an upload is a
\* .zip file
SessionRequest ==
    \E project_id \in {"p1"} :
        \/ create_project(project_id)
        \/ \E good_zip \in BOOLEAN : upload_project(project_id, TRUE, good_zip)
        \/ \E o \in [result : Results, made : BOOLEAN] :
               start_container(project_id, o,
                               setup_python_environment_subprocess("ok", "fail", "ok"))
        \/ \E timeout \in BOOLEAN : get_project_status(project_id, timeout)
        \/ \E stop \in Results, rm \in Results, rmtree_ok \in BOOLEAN :
               delete_project(project_id, stop, rm, rmtree_ok)

SessionNext ==
    \/ SessionRequest
    \/ \E w \in OneClient : BridgeStep(w)
    \/ \E w \in OneClient : SessionEnv(w)
    \/ \E c \in Cids : ContainerExits(c)

SessionSpec == Init /\ [][SessionNext]_vars

\* delete_project has answered 200 for a project that create_project made:
\* only its rmtree removes a project directory, and no id is handed out twice
Deleted(p) == p \in created /\ p \notin project_dirs

\* the container id that the registry held for p when the delete that has
\* just been answered 200 arrived: p's former handle
FormerHandle(p, c) ==
    /\ resp.op = "delete" /\ resp.project = p /\ resp.code = 200
    /\ resp.had_session /\ resp.prev_cid = c

\* C17: from a state in which project p is deleted, no step answers a start
\* of p with 200, no step answers a status of p with container_running true,
\* no step gives p a registry entry, and no attach request that names p's
\* former handle gets a bridge.
C17_TerminatedAbsorbing ==
    [][\A p \in Projects : Deleted(p) =>
          /\ ~(resp'.op = "start" /\ resp'.project = p /\ resp'.code = 200)
          /\ ~(resp'.op = "status" /\ resp'.project = p /\ resp'.container_running)
          /\ p \notin DOMAIN active_containers'
          /\ \A w \in Conns :
                (HandlesAttach(w) /\ FormerHandle(p, ws_target[w])) =>
                    ~Bridging(w)']_vars

\* the parts of C17 about start and status
DeletedStaysUnregistered ==
    [][\A p \in Projects : Deleted(p) =>
          /\ ~(resp'.op = "start" /\ resp'.project = p /\ resp'.code = 200)
          /\ ~(resp'.op = "status" /\ resp'.project = p /\ resp'.container_running)
          /\ p \notin DOMAIN active_containers']_vars

\* C18: when a terminate step has completed, its resource is not alive: after
\* delete_project has handled a project with a registry entry, the container
\* of the entry is not running, and after the handler of an attached bridge
\* has returned, its shell process is not alive.
C18_TerminateEscalates ==
    /\ (resp.op = "delete" /\ resp.had_session) =>
            ~RunningIn(containers, resp.prev_cid)
    /\ \A w \in Conns : (ws_pc[w] = "done" /\ attached[w]) => proc[w] # "alive"

\* the bridge half of C18 alone: the handler of an attached bridge never
\* returns with its shell process alive
TeardownEndsShell ==
    \A w \in Conns : (ws_pc[w] = "done" /\ attached[w]) => proc[w] # "alive"

\* C19: a status request for project p adds no registry entry, leaves every
\* other project's entry and the daemon's containers as they were, and
\* removes p's entry exactly when p is registered, Docker is available and
\* the inspection of its container fails or times out; it then reports
\* container_id null and container_running false.  When the inspection
\* succeeds the entry stays, the answer carries the registered container id,
\* and container_running is what the daemon says of that container.
C19_StatusReadOnly ==
    [][\A p \in Projects : (resp'.op = "status" /\ resp'.project = p) =>
          \A timeout \in BOOLEAN : get_project_status(p, timeout) =>
              LET registered == p \in DOMAIN active_containers
                  inspected == registered /\ docker_available
                  failed == inspected /\ ( \/ timeout
                                           \/ active_containers[p] \notin DOMAIN containers )
              IN  /\ DOMAIN active_containers' \subseteq DOMAIN active_containers
                  /\ \A q \in DOMAIN active_containers \ {p} :
                        /\ q \in DOMAIN active_containers'
                        /\ active_containers'[q] = active_containers[q]
                  /\ containers' = containers
                  /\ (registered /\ p \notin DOMAIN active_containers') <=> failed
                  /\ failed => (resp'.container_id = NoCid /\ ~resp'.container_running)
                  /\ (inspected /\ ~failed) =>
                        /\ active_containers'[p] = active_containers[p]
                        /\ resp'.container_id = active_containers[p]
                        /\ resp'.container_running =
                               containers[active_containers[p]].running
                  /\ ~inspected =>
                        (resp'.container_id = NoCid /\ ~resp'.container_running)]_vars

\* a status request whose inspection timed out has evicted the entry of a
\* project whose container is running, while another project kept its entry
C19_Witness ==
    /\ resp.op = "status" /\ resp.had_session /\ resp.container_id = NoCid
    /\ resp.project \notin DOMAIN active_containers
    /\ RunningIn(containers, resp.prev_cid)
    /\ DOMAIN active_containers # {}

(***************************************************************************)
(* Teardown of the shell process                                           *)
(***************************************************************************)
\* C20: when the handler of an attached bridge has returned, the shell
\* process it started has exited or has been sent process.terminate().
C20_NoShellUnsignalled ==
    \A w \in Conns :
        (ws_pc[w] = "done" /\ attached[w]) =>
            (proc[w] = "exited" \/ terminated[w])

\* a handler has returned after its client disconnected from a live shell:
\* the process was sent terminate() and is still alive
C20_Witness ==
    \E w \in Conns :
        /\ ws_pc[w] = "done" /\ attached[w] /\ client_closed[w]
        /\ terminated[w] /\ proc[w] = "alive"

====
